---- MODULE Spec2Model ----
(***************************************************************************)
(* Membership-application lifecycle of the Maestros community backend:     *)
(* eligibility, submission, review (accept / reject), CEO override, with   *)
(* the two generations of endpoints that are both mounted by main.py       *)
(* (routers/applications.py and app/api/application_manager.py).           *)
(*                                                                         *)
(* Every handler is an asyncio coroutine: it is cut at the awaits that     *)
(* touch shared state (the applications collection, the Discord roles),    *)
(* so that handlers of concurrent requests interleave as they do on the    *)
(* event loop.  Discord calls may fail; their outcome is chosen by \E.     *)
(***************************************************************************)
EXTENDS Integers, Sequences, FiniteSets, Bags, TLC

\* ------------------------------------------------------------------ time
\* The clock counts ticks of 12 hours, so that elapsed times that are not a
\* whole number of days exist and int(... / 86400) truncates something.
DAY == 2

COOLDOWN_DAYS == 30

COOLDOWN_SECONDS == COOLDOWN_DAYS * DAY

OVERRIDE_DAYS == 7

MIN_REASON_LEN == 10

\* ---------------------------------------------------------------- bounds
MaxApps == 2

MaxInFlight == 2

MaxAdvances == 1

\* the latest time, in ticks, at which eligibility alone is examined
MaxNow == 72

\* ------------------------------------------------------------ identities
Applicants == {"a1"}

\* Callers of the manager endpoints and the privilege each one holds.
Staff == {"mgr", "ceo", "guest"}

NoOne == "none"

\* guild_roles mirrored in the users collection, read by the dependency.
HasManagerOrCeoRole(c) == c \in {"mgr", "ceo"}

\* Live Discord roles of the caller, read by the override endpoint.
HasCeoRole(c) == c = "ceo"

\* ------------------------------------------------- JSON values of a payload
\* A field of the submitted dict: absent, null, a number, a text of length v
\* that matches kw quality keywords, or an ISO date that yields age v today.
Absent == [k |-> "absent", v |-> 0, kw |-> 0]

Null == [k |-> "null", v |-> 0, kw |-> 0]

Num(n) == [k |-> "num", v |-> n, kw |-> 0]

Text(n, m) == [k |-> "text", v |-> n, kw |-> m]

Date(age) == [k |-> "date", v |-> age, kw |-> 0]

\* datetime.now() of the validation, as a year and the day within the year
Today == [year |-> 2026, day |-> 180]

\* today.year - dob.year - ((today.month, today.day) < (dob.month, dob.day))
AgeToday(year, day) == Today.year - year - (IF Today.day < day THEN 1 ELSE 0)

\* The ISO date string of a birthday
Born(year, day) == Date(AgeToday(year, day))

\* `field not in data`
NotIn(x) == x.k = "absent"

\* Python truthiness of data[field]
Truthy(x) ==
    CASE x.k = "num" -> x.v # 0
      [] x.k = "text" -> x.v > 0
      [] x.k = "date" -> TRUE
      [] OTHER -> FALSE

\* len(x) raises TypeError on None and on a number
LenRaises(x) == x.k \in {"null", "num"}

\* int(x) raises TypeError on None, ValueError on a non-numeric string
IntRaises(x) == x.k \in {"null", "text", "date"}

REQUIRED_FIELDS ==
    {"in_game_name", "date_of_birth", "country", "primary_game",
     "gameplay_hours", "rank", "experience", "reason", "contribution",
     "availability"}

\* The errors dict of validate_application_data, as the set of its keys, and
\* whether the function raised instead of returning.
validate_application_data(data) ==
    LET required == {f \in REQUIRED_FIELDS : NotIn(data[f]) \/ ~Truthy(data[f])}
        dob == data["date_of_birth"]
        dobErr == IF NotIn(dob) THEN {}
                  ELSE IF dob.k = "text" THEN {"date_of_birth"}
                  ELSE IF dob.k = "date" /\ (dob.v < 13 \/ dob.v > 100)
                       THEN {"date_of_birth"}
                  ELSE {}
        hrs == data["gameplay_hours"]
        hrsErr == IF NotIn(hrs) THEN {}
                  ELSE IF IntRaises(hrs) THEN {"gameplay_hours"}
                  ELSE IF hrs.v < 0 THEN {"gameplay_hours"}
                  ELSE {}
        av == data["availability"]
        avErr == IF NotIn(av) THEN {}
                 ELSE IF IntRaises(av) THEN {"availability"}
                 ELSE IF av.v < 0 \/ av.v > 168 THEN {"availability"}
                 ELSE {}
        minLen(f, n) == IF ~NotIn(data[f]) /\ ~LenRaises(data[f]) /\ data[f].v < n
                        THEN {f} ELSE {}
        ign == data["in_game_name"]
        ignErr == IF ~NotIn(ign) /\ ~LenRaises(ign) /\ (ign.v < 3 \/ ign.v > 20)
                  THEN {"in_game_name"} ELSE {}
        raised == \/ (~NotIn(dob) /\ dob.k \in {"null", "num"})
                  \/ \E f \in {"experience", "reason", "contribution",
                               "in_game_name", "country"} :
                        ~NotIn(data[f]) /\ LenRaises(data[f])
        errors == required \cup dobErr \cup hrsErr \cup avErr
                    \cup minLen("experience", 20) \cup minLen("reason", 30)
                    \cup minLen("contribution", 20) \cup ignErr
                    \cup minLen("country", 2)
    IN  [valid |-> errors = {} /\ ~raised, errors |-> errors, raised |-> raised]

\* int(data.get(f, 0))
IntOrZero(x) == IF NotIn(x) THEN 0 ELSE x.v

\* Experience factor with every threshold taken inclusively
ExperienceFactor_Inclusive(h) ==
    IF h >= 1000 THEN 40 ELSE IF h >= 500 THEN 30 ELSE IF h >= 100 THEN 20 ELSE 10

\* Experience factor (gameplay hours)
ExperienceFactor(h) ==
    IF h > 1000 THEN 40 ELSE IF h > 500 THEN 30 ELSE IF h > 100 THEN 20 ELSE 10

\* Motivation factor: length of the reason and number of quality keywords
MotivationFactor(len, kw) ==
    IF len > 200 /\ kw >= 3 THEN 30
    ELSE IF len > 100 /\ kw >= 2 THEN 20
    ELSE IF len > 50 THEN 10
    ELSE 5

\* Contribution factor
ContributionFactor(len, kw) ==
    IF len > 100 /\ kw >= 2 THEN 20
    ELSE IF len > 50 /\ kw >= 1 THEN 15
    ELSE 5

\* Availability factor
AvailabilityFactor(a) ==
    IF a >= 20 THEN 10 ELSE IF a >= 10 THEN 7 ELSE IF a >= 5 THEN 4 ELSE 2

Min(a, b) == IF a < b THEN a ELSE b

\* Recommendation tiers whose top tier starts above 80
Recommendation_Above80(score) ==
    IF score > 80 THEN "Highly recommended for approval"
    ELSE IF score >= 60 THEN "Recommended for approval"
    ELSE IF score >= 40 THEN "Consider for approval with interview"
    ELSE "Not recommended"

\* Recommendation tier from the final score
Recommendation(score) ==
    IF score >= 80 THEN "Highly recommended for approval"
    ELSE IF score >= 60 THEN "Recommended for approval"
    ELSE IF score >= 40 THEN "Consider for approval with interview"
    ELSE "Not recommended"

\* analyze_application: (score, analysis), or an exception when int() or len()
\* is applied to a value it rejects.
analyze_application(data) ==
    LET raised == \/ (~NotIn(data["gameplay_hours"]) /\ IntRaises(data["gameplay_hours"]))
                  \/ (~NotIn(data["availability"]) /\ IntRaises(data["availability"]))
                  \/ \E f \in {"reason", "contribution", "experience"} :
                        ~NotIn(data[f]) /\ LenRaises(data[f])
        factors ==
            [gameplay_hours |-> ExperienceFactor(IntOrZero(data["gameplay_hours"])),
             motivation |-> MotivationFactor(data["reason"].v, data["reason"].kw),
             contribution |-> ContributionFactor(data["contribution"].v,
                                                 data["contribution"].kw),
             availability |-> AvailabilityFactor(IntOrZero(data["availability"]))]
        score == factors.gameplay_hours + factors.motivation
                   + factors.contribution + factors.availability
        final == IF raised THEN 0 ELSE Min(score, 100)
    IN  [raised |-> raised,
         score |-> final,
         analysis |-> [factors |-> factors, final_score |-> final,
                       recommendation |-> IF raised THEN "none"
                                          ELSE Recommendation(final)]]

\* A complete, well-written application, and one whose reason is missing.
GoodPayload ==
    [in_game_name |-> Text(8, 0), date_of_birth |-> Date(20), country |-> Text(5, 0),
     primary_game |-> Text(6, 0), gameplay_hours |-> Num(1200), rank |-> Text(4, 0),
     experience |-> Text(40, 0), reason |-> Text(250, 4),
     contribution |-> Text(150, 2), availability |-> Num(25)]

MissingReasonPayload == [GoodPayload EXCEPT !["reason"] = Absent]

SubmitPayloads == {GoodPayload, MissingReasonPayload}

\* Payloads that differ from the complete one in the reported hours, the
\* weekly availability, the birthday, or the two scored texts.
HoursPayloads ==
    {[GoodPayload EXCEPT !["gameplay_hours"] = Num(h)] :
        h \in {0 - 1, 0, 50, 100, 101, 500, 501, 1000, 1001, 1500}}

AvailabilityPayloads ==
    {[GoodPayload EXCEPT !["availability"] = Num(a)] :
        a \in {0 - 1, 0, 1, 4, 5, 10, 167, 168, 169}}

BirthPayloads ==
    {[GoodPayload EXCEPT !["date_of_birth"] = Born(y, d)] :
        y \in {1925, 1926, 2013, 2014}, d \in {100, 200}}

WrittenPayloads ==
    {[GoodPayload EXCEPT !["reason"] = r, !["contribution"] = c] :
        r \in {Text(40, 0), Text(60, 0), Text(120, 2), Text(250, 4)},
        c \in {Text(30, 0), Text(60, 1), Text(150, 2)}}

\* Payloads as submit-with-discord hands them to the scoring, unvalidated:
\* a numeric or text field left out, null, or of the wrong type.
EnginePayloads ==
    {[GoodPayload EXCEPT !["gameplay_hours"] = h] : h \in {Absent, Null, Text(4, 0)}}
        \cup {[GoodPayload EXCEPT !["availability"] = a] : a \in {Absent, Null, Text(3, 0)}}
        \cup {[GoodPayload EXCEPT !["reason"] = t] : t \in {Absent, Null}}
        \cup {[GoodPayload EXCEPT !["contribution"] = t] : t \in {Absent, Null}}
        \cup {GoodPayload}

\* A valid application that earns the least of every factor.
WeakPayload ==
    [GoodPayload EXCEPT !["gameplay_hours"] = Num(50), !["reason"] = Text(40, 0),
                        !["contribution"] = Text(30, 0), !["availability"] = Num(1)]

ScorePayloads ==
    HoursPayloads \cup AvailabilityPayloads \cup BirthPayloads
        \cup WrittenPayloads \cup {WeakPayload}

\* Reasons a reviewer may type: len is len(reason), pad the number of leading
\* and trailing blanks, which str.strip() removes.
Reason(n, p) == [len |-> n, pad |-> p]

NoReason == Reason(-1, 0)

\* "Welcome to Maestros!", the default of request_data.get('notes', ...)
DefaultNotes == Reason(20, 0)

Reasons == {Reason(3, 0), Reason(9, 0), Reason(10, 0), Reason(10, 1)}

\* len(reason.strip())
StripLen(r) == r.len - r.pad

\* ------------------------------------------------------------------ state
VARIABLES
    applications,   \* db.applications: the documents, in insertion order; _id is the index
    roles,          \* Discord: the roles each applicant holds in the guild
    inGuild,        \* Discord: whether the applicant is a member of the guild
    audit,          \* bag of audit entries: db.activity and db.activity_logs
    inflight,       \* bag of the requests being handled, each with its position
    now,            \* datetime.utcnow(), in ticks
    advances,       \* number of clock advances so far
    events          \* db.events: the events, by _id

vars == <<applications, roles, inGuild, audit, inflight, now, advances, events>>

MEMBER == "member"

PENDING_ROLE == "pending"

Unset == 0 - 1

\* The document inserted by a submit endpoint.
NewApplication(user, data, score, t) ==
    [user_id |-> user, data |-> data, status |-> "pending", submitted_at |-> t,
     result_score |-> score, ai_analysis |-> analyze_application(data).analysis,
     reviewed_by |-> NoOne, reviewed_at |-> Unset, review_notes |-> NoReason,
     rejection_reason |-> NoReason,
     handled_by |-> NoOne, decision_timestamp |-> Unset, decision_reason |-> NoReason,
     override_by_ceo |-> FALSE, override_granted_at |-> Unset,
     override_expires_at |-> Unset, override_granted_by |-> NoOne,
     dm_delivery_status |-> "unset"]

AppIds == 1..Len(applications)

AppsOf(user) == {i \in AppIds : applications[i].user_id = user}

\* find_one({"user_id": user, "status": "pending"}) finds something
HasPending(user) == \E i \in AppsOf(user) : applications[i].status = "pending"

\* find_one(filter, sort=[("submitted_at", -1)]): the documents it may return
\* (one of those with the greatest submitted_at), 0 standing for None.
LatestOf(ids) ==
    IF ids = {} THEN {0}
    ELSE {i \in ids : \A j \in ids : applications[j].submitted_at <= applications[i].submitted_at}

\* an override that still counts at the very instant it expires
HasValidOverride_Inclusive(app, t) ==
    app.override_by_ceo /\ app.override_expires_at # Unset /\ t <= app.override_expires_at

\* has_valid_override of the cooldown check
HasValidOverride(app, t) ==
    app.override_by_ceo /\ app.override_expires_at # Unset /\ t < app.override_expires_at

\* the cooldown length less the whole days elapsed since the submission
DaysLeft_WholeDaysElapsed(time_since) == COOLDOWN_DAYS - time_since \div DAY

\* int((COOLDOWN_SECONDS - time_since) / 86400)
DaysLeft(time_since) == (COOLDOWN_SECONDS - time_since) \div DAY

NoDecision ==
    [code |-> 0, eligible |-> FALSE, reason |-> "", action |-> "",
     days_remaining |-> Unset, can_apply_after |-> Unset, revoke |-> FALSE]

Decision(eligible, reason, action) ==
    [NoDecision EXCEPT !.code = 200, !.eligible = eligible, !.reason = reason,
                       !.action = action]

\* STEP 4 of check_application_eligibility on the document last (0: none)
CooldownCheck(last, t) ==
    IF last # 0
       /\ t - applications[last].submitted_at < COOLDOWN_SECONDS
       /\ ~HasValidOverride(applications[last], t)
    THEN [Decision(FALSE, "COOLDOWN", "WAIT") EXCEPT
            !.days_remaining = DaysLeft(t - applications[last].submitted_at),
            !.can_apply_after = applications[last].submitted_at + COOLDOWN_DAYS * DAY]
    ELSE Decision(TRUE, "", "APPLY")

\* the evaluator that, on an orphaned pending role, asks for the revoke and
\* goes on to the cooldown check
check_application_eligibility_FallThrough(user, platform, fetched, role_ids, last, t) ==
    IF platform # "ready" THEN [NoDecision EXCEPT !.code = 503]
    ELSE IF ~fetched THEN Decision(FALSE, "NOT_IN_SERVER", "JOIN_SERVER")
    ELSE IF MEMBER \in role_ids THEN Decision(FALSE, "ALREADY_MEMBER", "NONE")
    ELSE IF PENDING_ROLE \in role_ids /\ HasPending(user)
         THEN Decision(FALSE, "PENDING", "WAIT")
    ELSE [CooldownCheck(last, t) EXCEPT !.revoke = PENDING_ROLE \in role_ids]

\* check_application_eligibility: the decision for user, given the state of
\* the platform, whether fetch_member succeeded, the roles it returned, and
\* the document the cooldown query returned.
check_application_eligibility(user, platform, fetched, role_ids, last, t) ==
    IF platform # "ready" THEN [NoDecision EXCEPT !.code = 503]
    ELSE IF ~fetched THEN Decision(FALSE, "NOT_IN_SERVER", "JOIN_SERVER")
    ELSE IF MEMBER \in role_ids THEN Decision(FALSE, "ALREADY_MEMBER", "NONE")
    ELSE IF PENDING_ROLE \in role_ids
         THEN IF ~HasPending(user)
              THEN [Decision(TRUE, "", "APPLY") EXCEPT !.revoke = TRUE]
              ELSE Decision(FALSE, "PENDING", "WAIT")
    ELSE CooldownCheck(last, t)

\* ---------------------------------------------------------------- requests
\* A request being handled: the endpoint, the caller, the application it is
\* about, the await it is suspended at, and what the handler holds in its
\* locals.  did tells whether the handler has written anything so far (a
\* document, a role, a message, an audit entry); status0 is the status of
\* the application when the request arrived.
Request(op, caller, app) ==
    [op |-> op, caller |-> caller, app |-> app, pc |-> "start", resp |-> "",
     data |-> GoodPayload, reason |-> NoReason, dm |-> FALSE,
     elig |-> NoDecision, did |-> FALSE, status0 |-> "none", sends |-> 0]

Running == BagToSet(inflight)

\* one request moves from r to s
Move(r, s) == inflight' = (inflight (-) SetToBag({r})) (+) SetToBag({s})

Finish(r, resp) == [r EXCEPT !.pc = "done", !.resp = resp]

StatusOf(id) == IF id \in AppIds THEN applications[id].status ELSE "none"

\* ------------------------------------------------------------------ events
\* The users who register for events (any authenticated user).
Members == {"u1", "u2", "u3"}

EventIds == {1}

\* Registrations handled in one behaviour
MaxRegistrations == 4

\* The document create_event inserts: nobody registered, status upcoming.
Event(max_p, date) ==
    [participants |-> <<>>, max_participants |-> max_p, status |-> "upcoming",
     date |-> date]

EventDate == 10 * DAY

CreatedEvents == [e \in EventIds |-> Event(2, EventDate)]

\* user in event.get("participants", [])
Registered(e, user) == \E k \in 1..Len(events[e].participants) : events[e].participants[k] = user

Init ==
    /\ applications = <<>>
    /\ roles = [a \in Applicants |-> {}]
    /\ inGuild = [a \in Applicants |-> TRUE]
    /\ audit = EmptyBag
    /\ inflight = EmptyBag
    /\ now = 0
    /\ advances = 0
    /\ events = CreatedEvents

\* ------------------------------------------------------------ environment
\* bot.is_ready is false ("down"), or the guild is not in the client's cache
Platform == {"ready", "no_guild", "down"}

\* guild.fetch_member(user) can succeed only for a member of the guild
FetchOutcomes(user) == IF inGuild[user] THEN BOOLEAN ELSE {FALSE}

\* A role call: done, skipped because get_role found no such role, or raised
CallOutcomes == {"ok", "skip", "raise"}

Grant(rl, user, role) == [rl EXCEPT ![user] = @ \cup {role}]

Revoke(rl, user, role) == [rl EXCEPT ![user] = @ \ {role}]

\* insert_one into db.activity or db.activity_logs
Log(action, app, collection) ==
    audit' = audit (+) SetToBag({[action |-> action, app |-> app, sink |-> collection]})

\* A response is written out as soon as the handler has produced it, before
\* the event loop runs anything else.
Quiet == \A r \in Running : r.pc # "done"

Arrive(r) ==
    /\ Quiet
    /\ BagCardinality(inflight) < MaxInFlight
    /\ inflight' = inflight (+) SetToBag({r})

\* request r is suspended at the await pc of handler op
At(r, op, pc) == Quiet /\ r.op = op /\ r.pc = pc

\* submit requests that may still insert a document
Submitting == {r \in Running : r.op \in {"submit", "submit_discord"} /\ r.pc \in {"insert", "fetch"}}

RoomToSubmit ==
    Len(applications) + BagCardinality([r \in Submitting |-> inflight[r]]) < MaxApps

\* ------------------------------------------ routers/applications.py: submit
\* submit_application up to the await of find_one: validation, then the
\* look-up of a pending application of the caller.
SubmitCheck(user, data) ==
    LET v == validate_application_data(data)
        r == [Request("submit", user, 0) EXCEPT !.data = data]
    IN  /\ RoomToSubmit
        /\ Arrive(IF v.raised THEN Finish(r, "500")
                  ELSE IF ~v.valid THEN Finish(r, "400_validation")
                  ELSE IF HasPending(user) THEN Finish(r, "400_pending")
                  ELSE [r EXCEPT !.pc = "insert"])
        /\ UNCHANGED <<applications, roles, inGuild, audit, now, advances, events>>

\* analyze_application, insert_one, then activity.insert_one and the XP award
SubmitInsert(r) ==
    LET a == analyze_application(r.data)
        id == Len(applications) + 1
    IN  /\ At(r, "submit", "insert")
        /\ IF a.raised
           THEN /\ Move(r, Finish(r, "500"))
                /\ UNCHANGED <<applications, audit>>
           ELSE /\ applications' =
                      Append(applications, NewApplication(r.caller, r.data, a.score, now))
                /\ Log("application_submitted", id, "activity")
                /\ Move(r, Finish([r EXCEPT !.app = id, !.did = TRUE], "200"))
        /\ UNCHANGED <<roles, inGuild, now, advances, events>>

\* ---------------------------------- application_manager.py: submit-with-discord
\* submit_application_with_discord up to its own fetch_member: the readiness
\* check and the re-validation of eligibility (which removes an orphaned
\* pending role when the call succeeds).
DSubmitEligibility(user, data) ==
    \E platform \in Platform, fetched \in FetchOutcomes(user),
       last \in LatestOf(AppsOf(user)), removed \in BOOLEAN :
        LET d == check_application_eligibility(user, platform, fetched, roles[user], last, now)
            r == [Request("submit_discord", user, 0) EXCEPT
                    !.data = data, !.elig = d, !.did = d.revoke /\ removed]
        IN  /\ RoomToSubmit
            /\ Arrive(IF d.code = 503 THEN Finish(r, "503")
                      ELSE IF ~d.eligible THEN Finish(r, "400_not_eligible")
                      ELSE [r EXCEPT !.pc = "fetch"])
            /\ roles' = IF d.revoke /\ removed THEN Revoke(roles, user, PENDING_ROLE) ELSE roles
            /\ UNCHANGED <<applications, inGuild, audit, now, advances, events>>

\* fetch_member, analyze_application, insert_one
DSubmitInsert(r) ==
    /\ At(r, "submit_discord", "fetch")
    /\ \E fetched \in FetchOutcomes(r.caller) :
        LET a == analyze_application(r.data)
        IN  IF ~fetched
            THEN /\ Move(r, Finish(r, "400_user_not_found"))
                 /\ UNCHANGED applications
            ELSE IF a.raised
            THEN /\ Move(r, Finish(r, "500"))
                 /\ UNCHANGED applications
            ELSE /\ applications' =
                       Append(applications, NewApplication(r.caller, r.data, a.score, now))
                 /\ Move(r, [r EXCEPT !.pc = "role", !.app = Len(applications) + 1,
                                      !.did = TRUE])
    /\ UNCHANGED <<roles, inGuild, audit, now, advances, events>>

\* send_dm: fetch_user, then user.send; any exception of either is caught
\* and answered False.
DmOutcomes == {"sent", "fetch_user_raises", "send_raises"}

send_dm(outcome) == outcome = "sent"

\* a submit that sends the DM again when the first attempt failed
DSubmitRole_Retry(r) ==
    /\ At(r, "submit_discord", "role")
    /\ \E added \in FetchOutcomes(r.caller), o \in DmOutcomes, again \in DmOutcomes :
        LET dm == send_dm(o) \/ send_dm(again)
        IN  /\ roles' = IF added THEN Grant(roles, r.caller, PENDING_ROLE) ELSE roles
            /\ applications' = [applications EXCEPT ![r.app].dm_delivery_status =
                                    IF dm THEN "sent" ELSE "failed"]
            /\ Move(r, Finish([r EXCEPT !.dm = dm,
                                        !.sends = IF send_dm(o) THEN 1 ELSE 2], "200"))
    /\ UNCHANGED <<inGuild, audit, now, advances, events>>

\* member.add_roles(pending role), its failure swallowed; then send_dm, the
\* update of dm_delivery_status, the review-channel post and log_audit
DSubmitRole(r) ==
    /\ At(r, "submit_discord", "role")
    /\ \E added \in FetchOutcomes(r.caller), o \in DmOutcomes :
        LET dm == send_dm(o)
        IN  /\ roles' = IF added THEN Grant(roles, r.caller, PENDING_ROLE) ELSE roles
            /\ applications' = [applications EXCEPT ![r.app].dm_delivery_status =
                                    IF dm THEN "sent" ELSE "failed"]
            /\ Move(r, Finish([r EXCEPT !.dm = dm, !.sends = 1], "200"))
    /\ UNCHANGED <<inGuild, audit, now, advances, events>>

\* ------------------------------------------- routers/applications.py: accept
\* The application ids a reviewer may name: the existing ones and one more.
Targets == 1..(Len(applications) + 1)

\* accept_application up to the status check (require_manager_or_admin first)
AcceptRead(caller, id) ==
    LET r == [Request("accept", caller, id) EXCEPT !.status0 = StatusOf(id),
                                                  !.reason = DefaultNotes]
    IN  /\ Arrive(IF ~HasManagerOrCeoRole(caller) THEN Finish(r, "403")
                  ELSE IF id \notin AppIds THEN Finish(r, "404")
                  ELSE IF applications[id].status # "pending" THEN Finish(r, "400_not_pending")
                  ELSE [r EXCEPT !.pc = "discord"])
        /\ UNCHANGED <<applications, roles, inGuild, audit, now, advances, events>>

\* The Discord integration of accept_application: one try block around
\* fetch_member, add_roles(member), remove_roles(pending), the DM and the
\* channel post, so the first call that raises skips the rest; a role that
\* guild.get_role does not find is skipped without raising.
AcceptDiscord(r) ==
    /\ At(r, "accept", "discord")
    /\ \E platform \in Platform, fetched \in FetchOutcomes(applications[r.app].user_id),
          add \in CallOutcomes, rem \in CallOutcomes :
        LET user == applications[r.app].user_id
            f == platform = "ready" /\ fetched
            toRemove == f /\ add # "raise"
            toDm == toRemove /\ rem # "raise"
            rl1 == IF f /\ add = "ok" THEN Grant(roles, user, MEMBER) ELSE roles
            rl2 == IF toRemove /\ rem = "ok" THEN Revoke(rl1, user, PENDING_ROLE) ELSE rl1
        IN  /\ roles' = rl2
            /\ Move(r, [r EXCEPT !.pc = "update",
                                 !.did = (f /\ add = "ok") \/ (toRemove /\ rem = "ok") \/ toDm,
                                 !.sends = IF toDm THEN 1 ELSE 0])
    /\ UNCHANGED <<applications, inGuild, audit, now, advances, events>>

\* update_one({"_id": id}, {"$set": {"status": "approved", ...}}), then the
\* XP bonus and activity_logs.insert_one
AcceptUpdate(r) ==
    /\ At(r, "accept", "update")
    /\ applications' = [applications EXCEPT ![r.app] =
            [@ EXCEPT !.status = "approved", !.reviewed_at = now,
                      !.reviewed_by = r.caller, !.review_notes = r.reason]]
    /\ Log("application_approved", r.app, "activity_logs")
    /\ Move(r, Finish([r EXCEPT !.did = TRUE], "200"))
    /\ UNCHANGED <<roles, inGuild, now, advances, events>>

\* ----------------------------- application_manager.py: manager/accept
\* accept_application_with_discord up to the status check
DAcceptRead(caller, id) ==
    \E platform \in Platform :
        LET r == [Request("accept_discord", caller, id) EXCEPT !.status0 = StatusOf(id),
                                                              !.reason = DefaultNotes]
        IN  /\ Arrive(IF ~HasManagerOrCeoRole(caller) THEN Finish(r, "403")
                      ELSE IF platform # "ready" THEN Finish(r, "503")
                      ELSE IF id \notin AppIds THEN Finish(r, "404")
                      ELSE IF applications[id].status # "pending"
                           THEN Finish(r, "400_not_pending")
                      ELSE [r EXCEPT !.pc = "roles"])
            /\ UNCHANGED <<applications, roles, inGuild, audit, now, advances, events>>

\* fetch_member (404 when it fails), then add_roles(member) and
\* remove_roles(pending), each in its own try
DAcceptRoles(r) ==
    /\ At(r, "accept_discord", "roles")
    /\ \E fetched \in FetchOutcomes(applications[r.app].user_id),
          added \in BOOLEAN, removed \in BOOLEAN :
        LET user == applications[r.app].user_id
            rl1 == IF added THEN Grant(roles, user, MEMBER) ELSE roles
            rl2 == IF removed THEN Revoke(rl1, user, PENDING_ROLE) ELSE rl1
        IN  IF ~fetched
            THEN /\ Move(r, Finish(r, "404_user_not_in_server"))
                 /\ UNCHANGED roles
            ELSE /\ roles' = rl2
                 /\ Move(r, [r EXCEPT !.pc = "update", !.did = added \/ removed])
    /\ UNCHANGED <<applications, inGuild, audit, now, advances, events>>

\* update_one({"_id": id}, {"$set": {"status": "accepted", ...}}), then
\* send_dm, the post to the accepted-log channel and log_audit
DAcceptUpdate(r) ==
    /\ At(r, "accept_discord", "update")
    /\ \E dm \in BOOLEAN :
        /\ applications' = [applications EXCEPT ![r.app] =
                [@ EXCEPT !.status = "accepted", !.handled_by = r.caller,
                          !.decision_timestamp = now, !.decision_reason = r.reason]]
        /\ Move(r, Finish([r EXCEPT !.dm = dm, !.did = TRUE, !.sends = 1], "200"))
    /\ UNCHANGED <<roles, inGuild, audit, now, advances, events>>

\* ------------------------------------------- routers/applications.py: reject
\* reject_application up to the status check
RejectRead(caller, id, reason) ==
    LET r == [Request("reject", caller, id) EXCEPT !.status0 = StatusOf(id),
                                                  !.reason = reason]
    IN  /\ Arrive(IF ~HasManagerOrCeoRole(caller) THEN Finish(r, "403")
                  ELSE IF reason.len = 0 \/ StripLen(reason) < MIN_REASON_LEN
                       THEN Finish(r, "400_reason")
                  ELSE IF id \notin AppIds THEN Finish(r, "404")
                  ELSE IF applications[id].status # "pending" THEN Finish(r, "400_not_pending")
                  ELSE [r EXCEPT !.pc = "discord"])
        /\ UNCHANGED <<applications, roles, inGuild, audit, now, advances, events>>

\* The Discord integration of reject_application: one try block around
\* fetch_member, remove_roles(pending), the DM and the channel post.
RejectDiscord(r) ==
    /\ At(r, "reject", "discord")
    /\ \E platform \in Platform, fetched \in FetchOutcomes(applications[r.app].user_id),
          rem \in CallOutcomes :
        LET user == applications[r.app].user_id
            f == platform = "ready" /\ fetched
            toDm == f /\ rem # "raise"
        IN  /\ roles' = IF f /\ rem = "ok" THEN Revoke(roles, user, PENDING_ROLE) ELSE roles
            /\ Move(r, [r EXCEPT !.pc = "update", !.did = toDm,
                                 !.sends = IF toDm THEN 1 ELSE 0])
    /\ UNCHANGED <<applications, inGuild, audit, now, advances, events>>

\* a reject that also writes a score
RejectUpdate_Rescore(r) ==
    /\ At(r, "reject", "update")
    /\ applications' = [applications EXCEPT ![r.app] =
            [@ EXCEPT !.status = "rejected", !.reviewed_at = now,
                      !.reviewed_by = r.caller, !.rejection_reason = r.reason,
                      !.result_score = 0]]
    /\ Log("application_rejected", r.app, "activity_logs")
    /\ Move(r, Finish([r EXCEPT !.did = TRUE], "200"))
    /\ UNCHANGED <<roles, inGuild, now, advances, events>>

\* update_one({"_id": id}, {"$set": {"status": "rejected", ...}}), then
\* activity_logs.insert_one
RejectUpdate(r) ==
    /\ At(r, "reject", "update")
    /\ applications' = [applications EXCEPT ![r.app] =
            [@ EXCEPT !.status = "rejected", !.reviewed_at = now,
                      !.reviewed_by = r.caller, !.rejection_reason = r.reason]]
    /\ Log("application_rejected", r.app, "activity_logs")
    /\ Move(r, Finish([r EXCEPT !.did = TRUE], "200"))
    /\ UNCHANGED <<roles, inGuild, now, advances, events>>

\* ----------------------------- application_manager.py: manager/reject
\* reject_application_with_discord up to the status check
DRejectRead(caller, id, reason) ==
    \E platform \in Platform :
        LET r == [Request("reject_discord", caller, id) EXCEPT !.status0 = StatusOf(id),
                                                              !.reason = reason]
        IN  /\ Arrive(IF ~HasManagerOrCeoRole(caller) THEN Finish(r, "403")
                      ELSE IF platform # "ready" THEN Finish(r, "503")
                      ELSE IF reason.len < MIN_REASON_LEN THEN Finish(r, "400_reason")
                      ELSE IF id \notin AppIds THEN Finish(r, "404")
                      ELSE IF applications[id].status # "pending"
                           THEN Finish(r, "400_not_pending")
                      ELSE [r EXCEPT !.pc = "roles"])
            /\ UNCHANGED <<applications, roles, inGuild, audit, now, advances, events>>

\* fetch_member (member = None when it fails), remove_roles(pending)
DRejectRoles(r) ==
    /\ At(r, "reject_discord", "roles")
    /\ \E fetched \in FetchOutcomes(applications[r.app].user_id), removed \in BOOLEAN :
        LET user == applications[r.app].user_id
            m == fetched /\ removed
        IN  /\ roles' = IF m THEN Revoke(roles, user, PENDING_ROLE) ELSE roles
            /\ Move(r, [r EXCEPT !.pc = "update", !.did = m])
    /\ UNCHANGED <<applications, inGuild, audit, now, advances, events>>

\* update_one({"_id": id}, {"$set": {"status": "rejected", ...}}), then
\* send_dm when the member was found (dm_success stays False otherwise),
\* the channel post and log_audit
DRejectUpdate(r) ==
    /\ At(r, "reject_discord", "update")
    /\ \E member \in BOOLEAN, dm \in BOOLEAN :
        /\ dm => member
        /\ applications' = [applications EXCEPT ![r.app] =
                [@ EXCEPT !.status = "rejected", !.handled_by = r.caller,
                          !.decision_timestamp = now, !.decision_reason = r.reason]]
        /\ Move(r, Finish([r EXCEPT !.dm = dm, !.did = TRUE,
                                    !.sends = IF member THEN 1 ELSE 0], "200"))
    /\ UNCHANGED <<roles, inGuild, audit, now, advances, events>>

\* -------------------------- application_manager.py: ceo/grant-reapply
\* ceo_grant_reapply_override up to the look-up of the last rejected
\* application: the dependency, the readiness check, the CEO check against
\* the live roles (any exception of which answers 403), the look-up.
GrantRead(caller, user) ==
    \E platform \in Platform, fetched \in BOOLEAN,
       last \in LatestOf({i \in AppsOf(user) : applications[i].status = "rejected"}) :
        LET r == [Request("grant", caller, last) EXCEPT !.status0 = StatusOf(last)]
        IN  /\ Arrive(IF ~HasManagerOrCeoRole(caller) THEN Finish(r, "403")
                      ELSE IF platform = "down" THEN Finish(r, "503")
                      ELSE IF platform = "no_guild" \/ ~fetched \/ ~HasCeoRole(caller)
                           THEN Finish(r, "403")
                      ELSE IF last = 0 THEN Finish(r, "404")
                      ELSE [r EXCEPT !.pc = "update"])
            /\ UNCHANGED <<applications, roles, inGuild, audit, now, advances, events>>

\* update_one of the override fields, then the DM and log_audit
GrantUpdate(r) ==
    /\ At(r, "grant", "update")
    /\ \E dm \in BOOLEAN :
        /\ applications' = [applications EXCEPT ![r.app] =
                [@ EXCEPT !.override_by_ceo = TRUE, !.override_granted_by = r.caller,
                          !.override_granted_at = now,
                          !.override_expires_at = now + OVERRIDE_DAYS * DAY]]
        /\ Move(r, Finish([r EXCEPT !.dm = dm, !.did = TRUE, !.sends = 1], "200"))
    /\ UNCHANGED <<roles, inGuild, audit, now, advances, events>>

\* ----------------------------- application_manager.py: check-eligibility
CheckEligibility(user) ==
    \E platform \in Platform, fetched \in FetchOutcomes(user),
       last \in LatestOf(AppsOf(user)), removed \in BOOLEAN :
        LET d == check_application_eligibility(user, platform, fetched, roles[user], last, now)
            r == [Request("eligibility", user, last) EXCEPT
                    !.elig = d, !.did = d.revoke /\ removed]
        IN  /\ Arrive(Finish(r, IF d.code = 503 THEN "503" ELSE "200"))
            /\ roles' = IF d.revoke /\ removed THEN Revoke(roles, user, PENDING_ROLE) ELSE roles
            /\ UNCHANGED <<applications, inGuild, audit, now, advances, events>>

\* ----------------------------------------------- routers/events.py: register
\* register_for_event up to the await of update_one: the read of the event
\* and the checks made on what was read.
RegisterRead(user, id) ==
    LET r == Request("register", user, id)
        logged == {x \in BagToSet(audit) : x.action = "event_registered"}
        pushing == {x \in Running : x.op = "register" /\ x.pc = "push"}
    IN  /\ BagCardinality([x \in logged |-> audit[x]])
                + BagCardinality([x \in pushing |-> inflight[x]]) < MaxRegistrations
        /\ Arrive(IF id \notin EventIds THEN Finish(r, "404")
                  ELSE IF Registered(id, user) THEN Finish(r, "400_registered")
                  ELSE IF Len(events[id].participants) >= events[id].max_participants
                       THEN Finish(r, "400_full")
                  ELSE IF events[id].status # "upcoming" THEN Finish(r, "400_closed")
                  ELSE IF events[id].date # Unset /\ events[id].date < now
                       THEN Finish(r, "400_started")
                  ELSE [r EXCEPT !.pc = "push"])
        /\ UNCHANGED <<applications, roles, inGuild, audit, now, advances, events>>

\* update_one with $push (the caller is appended, whatever the array holds),
\* then activity.insert_one and the XP award
RegisterPush(r) ==
    /\ At(r, "register", "push")
    /\ events' = [events EXCEPT ![r.app].participants = Append(@, r.caller)]
    /\ Log("event_registered", r.app, "activity")
    /\ Move(r, Finish([r EXCEPT !.did = TRUE], "200"))
    /\ UNCHANGED <<applications, roles, inGuild, now, advances>>

\* unregister_from_event up to the await of update_one
UnregisterRead(user, id) ==
    LET r == Request("unregister", user, id)
    IN  /\ Arrive(IF id \notin EventIds THEN Finish(r, "404")
                  ELSE IF ~Registered(id, user) THEN Finish(r, "400_not_registered")
                  ELSE [r EXCEPT !.pc = "pull"])
        /\ UNCHANGED <<applications, roles, inGuild, audit, now, advances, events>>

\* update_one with $pull: every occurrence of the caller leaves the array
UnregisterPull(r) ==
    /\ At(r, "unregister", "pull")
    /\ events' = [events EXCEPT ![r.app].participants =
                                    SelectSeq(@, LAMBDA u : u # r.caller)]
    /\ Move(r, Finish([r EXCEPT !.did = TRUE], "200"))
    /\ UNCHANGED <<applications, roles, inGuild, audit, now, advances>>

\* The response is sent: the request is over.
Return(r) ==
    /\ r.pc = "done"
    /\ inflight' = inflight (-) SetToBag({r})
    /\ UNCHANGED <<applications, roles, inGuild, audit, now, advances, events>>

\* ---------------------------------------------------------- the world
\* Time passes between requests (a request is a matter of seconds): ten
\* days, thirty days.
ClockSteps == {10 * DAY, COOLDOWN_DAYS * DAY}

AdvanceClock ==
    /\ inflight = EmptyBag
    /\ advances < MaxAdvances
    /\ \E d \in ClockSteps : now' = now + d
    /\ advances' = advances + 1
    /\ UNCHANGED <<applications, roles, inGuild, audit, inflight, events>>

\* The applicant leaves the guild (Discord drops the roles) or joins it.
MemberLeave(user) ==
    /\ inflight = EmptyBag
    /\ inGuild[user]
    /\ inGuild' = [inGuild EXCEPT ![user] = FALSE]
    /\ roles' = [roles EXCEPT ![user] = {}]
    /\ UNCHANGED <<applications, audit, inflight, now, advances, events>>

MemberJoin(user) ==
    /\ inflight = EmptyBag
    /\ ~inGuild[user]
    /\ inGuild' = [inGuild EXCEPT ![user] = TRUE]
    /\ UNCHANGED <<applications, roles, audit, inflight, now, advances, events>>

\* The steps of each endpoint
SubmitSteps ==
    \/ \E user \in Applicants, data \in SubmitPayloads : SubmitCheck(user, data)
    \/ \E r \in Running : SubmitInsert(r)

DSubmitSteps ==
    \/ \E user \in Applicants, data \in SubmitPayloads : DSubmitEligibility(user, data)
    \/ \E r \in Running : DSubmitInsert(r)
    \/ \E r \in Running : DSubmitRole(r)

AcceptSteps ==
    \/ \E c \in Staff, id \in Targets : AcceptRead(c, id)
    \/ \E r \in Running : AcceptDiscord(r)
    \/ \E r \in Running : AcceptUpdate(r)

DAcceptSteps ==
    \/ \E c \in Staff, id \in Targets : DAcceptRead(c, id)
    \/ \E r \in Running : DAcceptRoles(r)
    \/ \E r \in Running : DAcceptUpdate(r)

RejectSteps ==
    \/ \E c \in Staff, id \in Targets, reason \in Reasons : RejectRead(c, id, reason)
    \/ \E r \in Running : RejectDiscord(r)
    \/ \E r \in Running : RejectUpdate(r)

DRejectSteps ==
    \/ \E c \in Staff, id \in Targets, reason \in Reasons : DRejectRead(c, id, reason)
    \/ \E r \in Running : DRejectRoles(r)
    \/ \E r \in Running : DRejectUpdate(r)

GrantSteps ==
    \/ \E c \in Staff, user \in Applicants : GrantRead(c, user)
    \/ \E r \in Running : GrantUpdate(r)

\* 0 is an _id that names no event
RegisterSteps ==
    \/ \E user \in Members, id \in EventIds \cup {0} : RegisterRead(user, id)
    \/ \E r \in Running : RegisterPush(r)
    \/ \E user \in Members, id \in EventIds \cup {0} : UnregisterRead(user, id)
    \/ \E r \in Running : UnregisterPull(r)

Returns == \E r \in Running : Return(r)

Membership ==
    \/ \E user \in Applicants : MemberLeave(user)
    \/ \E user \in Applicants : MemberJoin(user)

\* The whole service: both generations of endpoints are mounted (main.py).
Next ==
    \/ SubmitSteps
    \/ DSubmitSteps
    \/ AcceptSteps
    \/ DAcceptSteps
    \/ RejectSteps
    \/ DRejectSteps
    \/ GrantSteps
    \/ \E user \in Applicants : CheckEligibility(user)
    \/ RegisterSteps
    \/ Returns
    \/ AdvanceClock
    \/ Membership

Spec == Init /\ [][Next]_vars

\* Intake: the two submit endpoints and the eligibility probe, as time
\* passes and the applicant comes and goes.
NextIntake ==
    \/ SubmitSteps
    \/ DSubmitSteps
    \/ \E user \in Applicants : CheckEligibility(user)
    \/ Returns
    \/ AdvanceClock
    \/ Membership

SpecIntake == Init /\ [][NextIntake]_vars

\* Review: the four decision endpoints at work on one pending application,
\* as intake leaves it (with or without the pending role, the applicant
\* still in the guild or gone).
InitReview ==
    /\ applications = <<NewApplication("a1", GoodPayload, analyze_application(GoodPayload).score, 0)>>
    /\ inGuild \in [Applicants -> BOOLEAN]
    /\ roles \in [Applicants -> {{}, {PENDING_ROLE}}]
    /\ \A a \in Applicants : ~inGuild[a] => roles[a] = {}
    /\ audit = SetToBag({[action |-> "application_submitted", app |-> 1, sink |-> "activity"]})
    /\ inflight = EmptyBag
    /\ now = 0
    /\ advances = 0
    /\ events = CreatedEvents

NextReview ==
    \/ AcceptSteps
    \/ DAcceptSteps
    \/ RejectSteps
    \/ DRejectSteps
    \/ Returns
    \/ Membership

SpecReview == InitReview /\ [][NextReview]_vars

\* Re-application through routers/applications.py: submit, reject, the CEO's
\* override, and the passing of time.
NextReapply ==
    \/ SubmitSteps
    \/ RejectSteps
    \/ GrantSteps
    \/ Returns
    \/ AdvanceClock

SpecReapply == Init /\ [][NextReapply]_vars

\* Eligibility alone: the probe applied to an applicant with one earlier
\* application, submitted at time 0 through submit-with-discord, in any
\* status, a rejected one with or without an override granted at some time
\* up to now; at any time up to MaxNow; with any roles.
GrantTimes == {0, 1, 5 * DAY, 20 * DAY}

EarlierApplications ==
    LET base == [NewApplication("a1", GoodPayload, analyze_application(GoodPayload).score, 0)
                    EXCEPT !.dm_delivery_status = "sent"]
        decided(st) == [base EXCEPT !.status = st, !.handled_by = "mgr",
                                    !.decision_timestamp = 0, !.decision_reason = DefaultNotes]
        overridden(g) == [decided("rejected") EXCEPT
                            !.override_by_ceo = TRUE, !.override_granted_by = "ceo",
                            !.override_granted_at = g,
                            !.override_expires_at = g + OVERRIDE_DAYS * DAY]
    IN  {base, decided("accepted"), decided("rejected")}
            \cup {overridden(g) : g \in {g \in GrantTimes : g <= now}}

InitElig ==
    /\ now \in 0..MaxNow
    /\ applications \in {<<a>> : a \in EarlierApplications}
    /\ inGuild \in [Applicants -> BOOLEAN]
    /\ roles \in [Applicants -> SUBSET {MEMBER, PENDING_ROLE}]
    /\ \A a \in Applicants : ~inGuild[a] => roles[a] = {}
    /\ audit = EmptyBag
    /\ inflight = EmptyBag
    /\ advances = 0
    /\ events = CreatedEvents

NextElig ==
    \/ \E user \in Applicants : CheckEligibility(user)
    \/ Returns

SpecElig == InitElig /\ [][NextElig]_vars

\* The CEO's override and the probe, for an applicant whose first application
\* (submitted at time 0) was rejected and who may have made a second one
\* since, decided either way; the applicant may be without the member role
\* after an accept, whose add_roles fails silently.
LaterTimes == {5 * DAY, 10 * DAY}

Histories ==
    LET first == [NewApplication("a1", GoodPayload, analyze_application(GoodPayload).score, 0)
                    EXCEPT !.status = "rejected", !.handled_by = "mgr",
                           !.decision_timestamp = 0,
                           !.decision_reason = Reason(MIN_REASON_LEN, 0)]
        second(t, st) == [first EXCEPT !.submitted_at = t, !.status = st,
                                       !.decision_timestamp = t]
    IN  {<<first>>}
            \cup {<<first, second(t, st)>> : t \in LaterTimes, st \in {"rejected", "accepted"}}

InitOverride ==
    /\ now \in {10 * DAY, 12 * DAY}
    /\ applications \in Histories
    /\ inGuild \in [Applicants -> BOOLEAN]
    /\ roles \in [Applicants -> SUBSET {MEMBER, PENDING_ROLE}]
    /\ \A a \in Applicants : ~inGuild[a] => roles[a] = {}
    /\ audit = EmptyBag
    /\ inflight = EmptyBag
    /\ advances = 0
    /\ events = CreatedEvents

NextOverride ==
    \/ GrantSteps
    \/ \E user \in Applicants : CheckEligibility(user)
    \/ Returns

SpecOverride == InitOverride /\ [][NextOverride]_vars

\* An override that has been used: the first application (time 0) was
\* rejected, the CEO granted an override on day 5, the applicant submitted
\* again under it and that application has been decided.
UsedGrantTime == 5 * DAY

ProbeTimes == {6 * DAY, 10 * DAY, 11 * DAY, 12 * DAY, 13 * DAY, 36 * DAY}

UsedHistories ==
    LET first == [NewApplication("a1", GoodPayload, analyze_application(GoodPayload).score, 0)
                    EXCEPT !.status = "rejected", !.handled_by = "mgr",
                           !.decision_timestamp = 0,
                           !.decision_reason = Reason(MIN_REASON_LEN, 0),
                           !.override_by_ceo = TRUE, !.override_granted_by = "ceo",
                           !.override_granted_at = UsedGrantTime,
                           !.override_expires_at = UsedGrantTime + OVERRIDE_DAYS * DAY]
        second(t, st) ==
            [NewApplication("a1", GoodPayload, analyze_application(GoodPayload).score, t)
                EXCEPT !.status = st, !.handled_by = "mgr", !.decision_timestamp = t,
                       !.decision_reason = Reason(MIN_REASON_LEN, 0)]
    IN  {<<first, second(t, st)>> :
            t \in {UsedGrantTime, UsedGrantTime + DAY}, st \in {"rejected", "accepted"}}

InitUsed ==
    /\ now \in ProbeTimes
    /\ applications \in UsedHistories
    /\ inGuild \in [Applicants -> BOOLEAN]
    /\ roles \in [Applicants -> SUBSET {MEMBER, PENDING_ROLE}]
    /\ \A a \in Applicants : ~inGuild[a] => roles[a] = {}
    /\ audit = EmptyBag
    /\ inflight = EmptyBag
    /\ advances = 0
    /\ events = CreatedEvents

SpecUsed == InitUsed /\ [][NextOverride]_vars

\* Submissions only: every payload of ScorePayloads goes through validation
\* and, when it passes, through the scoring and the insertion.
NextScore ==
    \/ \E user \in Applicants, data \in ScorePayloads : SubmitCheck(user, data)
    \/ \E r \in Running : SubmitInsert(r)
    \/ Returns

SpecScore == Init /\ [][NextScore]_vars

\* Decisions under way on one pending application: each request has passed
\* its checks and is suspended before its first call to the platform
\* (guild.fetch_member).
StartedRequests ==
    {[Request(op, c, 1) EXCEPT !.status0 = "pending",
                               !.pc = IF op \in {"accept", "reject"} THEN "discord" ELSE "roles",
                               !.reason = IF op \in {"reject", "reject_discord"} THEN Reason(10, 0)
                                          ELSE DefaultNotes] :
        op \in {"accept", "accept_discord", "reject", "reject_discord"},
        c \in {"mgr", "ceo"}}

InitLive ==
    /\ applications = <<NewApplication("a1", GoodPayload, analyze_application(GoodPayload).score, 0)>>
    /\ inGuild \in [Applicants -> BOOLEAN]
    /\ roles \in [Applicants -> {{}, {PENDING_ROLE}}]
    /\ \A a \in Applicants : ~inGuild[a] => roles[a] = {}
    /\ audit = SetToBag({[action |-> "application_submitted", app |-> 1, sink |-> "activity"]})
    /\ \E S \in SUBSET StartedRequests :
            /\ S # {} /\ Cardinality(S) <= MaxInFlight
            /\ inflight = SetToBag(S)
    /\ now = 0
    /\ advances = 0
    /\ events = CreatedEvents

\* The awaited call to the platform never answers: no statement of the
\* handlers bounds the wait (no asyncio.wait_for, no timeout argument), so
\* the coroutine stays suspended in the await.
NeverAnswers(r) ==
    /\ Quiet
    /\ r.pc \in {"discord", "roles"}
    /\ Move(r, [r EXCEPT !.pc = "awaiting"])
    /\ UNCHANGED <<applications, roles, inGuild, audit, now, advances, events>>

\* What the event loop runs once the awaited call has answered
Resume ==
    \/ \E r \in Running : AcceptDiscord(r)
    \/ \E r \in Running : AcceptUpdate(r)
    \/ \E r \in Running : DAcceptRoles(r)
    \/ \E r \in Running : DAcceptUpdate(r)
    \/ \E r \in Running : RejectDiscord(r)
    \/ \E r \in Running : RejectUpdate(r)
    \/ \E r \in Running : DRejectRoles(r)
    \/ \E r \in Running : DRejectUpdate(r)
    \/ Returns

NextLive ==
    \/ Resume
    \/ \E r \in Running : NeverAnswers(r)

\* The event loop runs every coroutine that is ready.
SpecLive == InitLive /\ [][NextLive]_vars /\ WF_vars(Resume)

\* Submit-with-discord only, over the payloads it does not validate.
NextEngine ==
    \/ \E user \in Applicants, data \in EnginePayloads : DSubmitEligibility(user, data)
    \/ \E r \in Running : DSubmitInsert(r)
    \/ \E r \in Running : DSubmitRole(r)
    \/ Returns

SpecEngine == Init /\ [][NextEngine]_vars

\* One record from its insertion on: submit-with-discord has just inserted
\* the document and is about to grant the pending role, send the DM and
\* store the delivery status, while reviewers and the CEO act on it.
InitRecord ==
    /\ applications = <<NewApplication("a1", GoodPayload, analyze_application(GoodPayload).score, 0)>>
    /\ inGuild = [a \in Applicants |-> TRUE]
    /\ roles = [a \in Applicants |-> {}]
    /\ audit = EmptyBag
    /\ inflight = SetToBag({[Request("submit_discord", "a1", 1) EXCEPT
                                !.pc = "role", !.did = TRUE,
                                !.elig = Decision(TRUE, "", "APPLY")]})
    /\ now = 0
    /\ advances = 0
    /\ events = CreatedEvents

NextRecord ==
    \/ \E r \in Running : DSubmitRole(r)
    \/ AcceptSteps
    \/ DAcceptSteps
    \/ RejectSteps
    \/ GrantSteps
    \/ Returns

SpecRecord == InitRecord /\ [][NextRecord]_vars

\* Registration: users register for and leave one upcoming event, before or
\* after its date.
InitRegister ==
    /\ applications = <<>>
    /\ roles = [a \in Applicants |-> {}]
    /\ inGuild = [a \in Applicants |-> TRUE]
    /\ audit = EmptyBag
    /\ inflight = EmptyBag
    /\ now \in {0, 2 * EventDate}
    /\ advances = 0
    /\ events \in [EventIds -> {Event(c, EventDate) : c \in {2, 3}}]

NextRegister ==
    \/ RegisterSteps
    \/ Returns

SpecRegister == InitRegister /\ [][NextRegister]_vars

\* ------------------------------------------------------------- properties
PendingOf(user) == {i \in AppsOf(user) : applications[i].status = "pending"}

\* C1: for every applicant, in every reachable state, at most one
\* application with status pending exists, also when two submit requests of
\* the applicant interleave and when the pending role was never granted.
C1_AtMostOnePending == \A a \in Applicants : Cardinality(PendingOf(a)) <= 1

\* C2: the status of an application changes only from pending to approved
\* or from pending to rejected, also when two reviewers decide on it at the
\* same time: a status that has left pending never changes again, and no
\* other value is ever written.
C2_StatusTransitions ==
    [][\A i \in AppIds :
          /\ applications'[i].status \in {"pending", "approved", "rejected"}
          /\ applications[i].status # "pending"
                => applications'[i].status = applications[i].status]_vars

ReviewOps == {"accept", "accept_discord", "reject", "reject_discord"}

RejectOps == {"reject", "reject_discord"}

\* the responses a step has just produced
Answered == {r \in Running' : r.pc = "done" /\ r \notin Running}

\* a decision request of a manager or CEO, a reject carrying a reason of at
\* least ten characters without surrounding white space
WellFormed(r) ==
    /\ r.op \in ReviewOps
    /\ HasManagerOrCeoRole(r.caller)
    /\ r.op \in RejectOps => r.reason.pad = 0 /\ r.reason.len >= MIN_REASON_LEN

\* C3: accept or reject of an application that is already approved or
\* rejected answers with the conflict error and changes nothing: no field
\* of the record, no role, no notification, no audit entry.
C3_TerminalConflict ==
    [][\A r \in Answered :
          WellFormed(r) /\ r.status0 \in {"approved", "rejected"}
              => /\ r.resp = "400_not_pending"
                 /\ ~r.did
                 /\ UNCHANGED <<applications, roles, audit>>]_vars

\* C4: no failure of the member look-up, of a role call, of the private
\* message or of the channel post blocks the decision: accept or reject of
\* a pending application answers with success and the status has left
\* pending, also when the applicant has left the guild or the Discord
\* client is not connected.
C4_DecisionNeverBlocked ==
    \A r \in Running :
        r.pc = "done" /\ WellFormed(r) /\ r.status0 = "pending"
            => r.resp = "200" /\ applications[r.app].status # "pending"

ApprovedEntries(i) ==
    CopiesIn([action |-> "application_approved", app |-> i, sink |-> "activity_logs"], audit)

\* C5: an accepted application has status approved and its reviewer set,
\* and exactly one approved audit entry is written for it; however accept
\* calls interleave, there is never more than one.
C5_OneApprovedEntry ==
    /\ \A i \in AppIds : ApprovedEntries(i) <= 1
    /\ \A r \in Running :
        r.pc = "done" /\ r.op \in {"accept", "accept_discord"} /\ r.resp = "200"
            => /\ applications[r.app].status = "approved"
               /\ applications[r.app].reviewed_by = r.caller
               /\ ApprovedEntries(r.app) = 1

\* C6: a submission whose payload fails validation is answered with the
\* validation errors and has no effect, at every submit endpoint: no
\* record is created from it, nothing is written.
C6_InvalidPayloadNoEffect ==
    /\ \A i \in AppIds : validate_application_data(applications[i].data).valid
    /\ \A r \in Running :
        /\ r.pc = "done"
        /\ r.op \in {"submit", "submit_discord"}
        /\ ~validate_application_data(r.data).valid
        => r.resp = "400_validation" /\ ~r.did

\* C7: two successive submissions of an applicant are at least 30 days
\* apart, unless a valid override exists for the applicant when the second
\* one is made.
C7_CooldownSafety ==
    [][Len(applications') > Len(applications) =>
          LET new == applications'[Len(applications')]
              earlier == AppsOf(new.user_id)
          IN  \/ \A i \in earlier : new.submitted_at - applications[i].submitted_at >= COOLDOWN_SECONDS
              \/ \E i \in earlier : HasValidOverride(applications[i], new.submitted_at)]_vars

\* C8: a reject with a reason shorter than ten characters is refused with a
\* validation error and changes nothing; a reject of a pending application
\* with a reason of exactly ten characters goes through and sets the status
\* to rejected.
C8_ReasonLength ==
    \A r \in Running :
        r.pc = "done" /\ r.op \in RejectOps /\ HasManagerOrCeoRole(r.caller)
            => /\ r.reason.len < MIN_REASON_LEN => r.resp = "400_reason" /\ ~r.did
               /\ r.reason.len = MIN_REASON_LEN /\ r.status0 = "pending"
                    => r.resp = "200" /\ applications[r.app].status = "rejected"

\* the answers of the eligibility probe for an applicant who was found in
\* the guild and held neither the member role nor the pending role (none
\* was there to be revoked)
CooldownAnswers ==
    {r \in Running : /\ r.pc = "done" /\ r.op = "eligibility" /\ r.resp = "200"
                     /\ r.elig.reason # "NOT_IN_SERVER"
                     /\ roles[r.caller] \cap {MEMBER, PENDING_ROLE} = {}
                     /\ ~r.elig.revoke
                     /\ r.app # 0}

Elapsed(r) == now - applications[r.app].submitted_at

Overridden(r) == applications[r.app].override_by_ceo

\* C9: an applicant whose last submission is less than 30 days old and who
\* has no override is answered COOLDOWN, with days_remaining the whole days
\* left of the 30 (20 when the submission is 10 days old) and
\* can_apply_after the submission time plus 30 days; with an override that
\* expires in the future the answer is eligible.
C9_CooldownAnswer ==
    \A r \in CooldownAnswers :
        /\ Elapsed(r) < COOLDOWN_DAYS * DAY /\ ~Overridden(r)
            => /\ ~r.elig.eligible
               /\ r.elig.reason = "COOLDOWN"
               /\ r.elig.days_remaining * DAY <= COOLDOWN_DAYS * DAY - Elapsed(r)
               /\ COOLDOWN_DAYS * DAY - Elapsed(r) < (r.elig.days_remaining + 1) * DAY
               /\ r.elig.can_apply_after = applications[r.app].submitted_at + COOLDOWN_DAYS * DAY
        /\ Elapsed(r) = 10 * DAY /\ ~Overridden(r) => r.elig.days_remaining = 20
        /\ Overridden(r) /\ now < applications[r.app].override_expires_at => r.elig.eligible

C9_Witness ==
    \E r \in CooldownAnswers :
        /\ Elapsed(r) = 10 * DAY
        /\ ~Overridden(r)
        /\ r.elig.reason = "COOLDOWN"
        /\ r.elig.days_remaining = 20

\* C10: inside the 30 days, an override makes the applicant eligible at any
\* time before override_expires_at and stops doing so from that time on
\* (the answer is COOLDOWN again), while the stored override is untouched.
C10_OverrideExpiry ==
    [][\A r \in Answered :
          r \in CooldownAnswers' /\ Elapsed(r) < COOLDOWN_DAYS * DAY /\ Overridden(r)
              => /\ now < applications[r.app].override_expires_at => r.elig.eligible
                 /\ now >= applications[r.app].override_expires_at
                        => ~r.elig.eligible /\ r.elig.reason = "COOLDOWN"
                 /\ applications' = applications]_vars

C10_Witness ==
    \E r \in CooldownAnswers :
        /\ Elapsed(r) < COOLDOWN_DAYS * DAY
        /\ Overridden(r)
        /\ now = applications[r.app].override_expires_at
        /\ r.elig.reason = "COOLDOWN"

\* the answers the eligibility probe has just given to an applicant who was
\* found in the guild
ProbeAnswers ==
    {r \in Answered : r.op = "eligibility" /\ r.resp = "200" /\ r.elig.reason # "NOT_IN_SERVER"}

\* the applicant holds the pending role (and not the member role) and has
\* no pending application
Orphaned(user) ==
    /\ PENDING_ROLE \in roles[user]
    /\ MEMBER \notin roles[user]
    /\ ~HasPending(user)

\* C11: an applicant who holds the pending role without a pending
\* application is answered eligible, and the revoke of the role is
\* attempted; the answer is the same whether the revoke succeeds or fails.
C11_OrphanedFlag ==
    [][\A r \in ProbeAnswers :
          Orphaned(r.caller)
              => /\ r.elig = [Decision(TRUE, "", "APPLY") EXCEPT !.revoke = TRUE]
                 /\ roles' \in {roles, Revoke(roles, r.caller, PENDING_ROLE)}]_vars

\* the revoke failed and the answer is eligible all the same
C11_Witness ==
    \E r \in Running :
        /\ r.pc = "done" /\ r.op = "eligibility"
        /\ r.elig.revoke /\ ~r.did
        /\ r.elig.eligible
        /\ PENDING_ROLE \in roles[r.caller]
        /\ r.app # 0 /\ Elapsed(r) < COOLDOWN_SECONDS

\* C12: with an orphaned pending role the evaluator goes on to the cooldown
\* check as if the role were absent: the decision is the one the same
\* applicant with the same applications gets without the role (COOLDOWN
\* when the last submission is less than 30 days old and not overridden).
C12_OrphanFallsThrough ==
    [][\A r \in ProbeAnswers :
          Orphaned(r.caller)
              => [r.elig EXCEPT !.revoke = FALSE] = CooldownCheck(r.app, now)]_vars

\* the reason of a decision, "" standing for eligible
Outcome(d) == IF d.eligible THEN "ELIGIBLE" ELSE d.reason

\* C13: the checks run in the order membership, already-member, pending
\* flag, cooldown, and the first one that fails decides: not in the guild
\* gives NOT_IN_SERVER; else the member role gives ALREADY_MEMBER; else the
\* pending role with a pending application gives PENDING; else a submission
\* less than 30 days old without valid override gives COOLDOWN; otherwise
\* the applicant is eligible, with action APPLY.
C13_CheckOrder ==
    [][\A r \in Answered :
          r.op = "eligibility" /\ r.resp = "200"
              => LET u == r.caller
                     recent == /\ r.app # 0
                               /\ now - applications[r.app].submitted_at < COOLDOWN_DAYS * DAY
                               /\ ~(/\ applications[r.app].override_by_ceo
                                    /\ now < applications[r.app].override_expires_at)
                 IN  /\ ~inGuild[u] => Outcome(r.elig) = "NOT_IN_SERVER"
                     /\ Outcome(r.elig) # "NOT_IN_SERVER"
                          => Outcome(r.elig) =
                                IF MEMBER \in roles[u] THEN "ALREADY_MEMBER"
                                ELSE IF PENDING_ROLE \in roles[u] /\ HasPending(u) THEN "PENDING"
                                ELSE IF recent THEN "COOLDOWN"
                                ELSE "ELIGIBLE"
                     /\ r.elig.eligible => r.elig.action = "APPLY"]_vars

\* C14: the evaluator fails closed: when Discord cannot be reached (client
\* not ready, guild unavailable, member look-up failing although the
\* applicant is in the guild) the answer is service-unavailable, never a
\* decision; so NOT_IN_SERVER is answered only to one who is not in the
\* guild.
C14_FailsClosed ==
    \A r \in Running :
        r.pc = "done" /\ r.op = "eligibility"
            => /\ r.resp \in {"200", "503"}
               /\ r.resp = "200" /\ r.elig.reason = "NOT_IN_SERVER" => ~inGuild[r.caller]
               /\ r.resp = "503" => r.elig.code = 503 /\ ~r.elig.eligible /\ r.elig.reason = ""

\* C15: the override is granted only to a requester who holds the CEO role
\* and only when the applicant has a rejected application; otherwise the
\* answer is 403 (the requester lacks the privilege) or 404 (no rejected
\* application), and then no application is modified, nothing is sent and
\* no audit entry is written.
C15_GrantPreconditions ==
    [][\A r \in Answered :
          r.op = "grant"
              => /\ r.resp \in {"200", "403", "404"}
                 /\ r.resp = "200" => HasCeoRole(r.caller) /\ r.status0 = "rejected"
                 /\ ~HasCeoRole(r.caller) => r.resp = "403"
                 /\ r.resp = "404" => r.app = 0
                 /\ r.resp # "200" => ~r.did /\ UNCHANGED <<applications, roles, audit>>]_vars

\* the caller lacks the privilege the operation requires: manager or CEO
\* for accept and reject, CEO for the override
Unprivileged(r) ==
    \/ r.op \in ReviewOps /\ ~HasManagerOrCeoRole(r.caller)
    \/ r.op = "grant" /\ ~HasCeoRole(r.caller)

\* C16: accept, reject and grant-override answer a caller who lacks the
\* required privilege with the authorization error before anything else,
\* whatever the reason, the application id, the status or the state of the
\* Discord client, and change nothing.
C16_AuthorizationFirst ==
    [][\A r \in Answered :
          Unprivileged(r)
              => /\ r.resp = "403"
                 /\ ~r.did
                 /\ UNCHANGED <<applications, roles, audit>>]_vars

\* C17: the score of an application is written at submission and never
\* again: accept, reject, grant-override and the update of the delivery
\* status leave the score and the analysis of every record as they were.
C17_ScoreImmutable ==
    [][\A i \in AppIds :
          /\ applications'[i].result_score = applications[i].result_score
          /\ applications'[i].ai_analysis = applications[i].ai_analysis]_vars

\* a record that was rejected, then overridden, and whose delivery status
\* was stored, with the score of its submission
C17_Witness ==
    \E i \in AppIds :
        /\ applications[i].status = "rejected"
        /\ applications[i].override_by_ceo
        /\ applications[i].dm_delivery_status # "unset"
        /\ applications[i].result_score = analyze_application(applications[i].data).score

\* The hours a stored application reported, and the experience factor kept
\* in its analysis.
HoursOf(i) == applications[i].data["gameplay_hours"].v

ExperienceOf(i) == applications[i].ai_analysis.factors.gameplay_hours

\* C18: the experience factor of a stored application is a step function of
\* its reported hours h: 40 when h > 1000, 30 when 500 < h <= 1000, 20 when
\* 100 < h <= 500, 10 otherwise; 1500 hours give 40 and 50 hours give 10.
C18_ExperienceSteps ==
    \A i \in AppIds :
        /\ HoursOf(i) > 1000 => ExperienceOf(i) = 40
        /\ (500 < HoursOf(i) /\ HoursOf(i) <= 1000) => ExperienceOf(i) = 30
        /\ (100 < HoursOf(i) /\ HoursOf(i) <= 500) => ExperienceOf(i) = 20
        /\ HoursOf(i) <= 100 => ExperienceOf(i) = 10
        /\ HoursOf(i) = 1500 => ExperienceOf(i) = 40
        /\ HoursOf(i) = 50 => ExperienceOf(i) = 10

\* Two applications are stored, one that reported 1500 hours and one that
\* reported 50.
C18_Witness ==
    \E i, j \in AppIds :
        /\ HoursOf(i) = 1500 /\ ExperienceOf(i) = 40
        /\ HoursOf(j) = 50 /\ ExperienceOf(j) = 10

\* The four factors kept in the analysis of a stored application
FactorsOf(i) == applications[i].ai_analysis.factors

FactorSum(i) ==
    FactorsOf(i).gameplay_hours + FactorsOf(i).motivation
        + FactorsOf(i).contribution + FactorsOf(i).availability

\* The application reports 1200 hours, a 250-character reason with 4 quality
\* keywords, a 150-character contribution with 2 keywords and availability 25.
WellWritten(i) ==
    /\ applications[i].data["gameplay_hours"] = Num(1200)
    /\ applications[i].data["reason"] = Text(250, 4)
    /\ applications[i].data["contribution"] = Text(150, 2)
    /\ applications[i].data["availability"] = Num(25)

TopTier == "Highly recommended for approval"

\* C19: the stored score is the sum of the experience, motivation,
\* contribution and availability factors clamped to 100, so it lies in
\* [0, 100]; the well-written payload scores 40+30+20+10 = 100 and gets the
\* top recommendation tier, which every score >= 80 gets.
C19_FinalScore ==
    \A i \in AppIds :
        /\ applications[i].result_score = Min(FactorSum(i), 100)
        /\ applications[i].result_score \in 0..100
        /\ applications[i].ai_analysis.final_score = applications[i].result_score
        /\ WellWritten(i) =>
              /\ FactorsOf(i) = [gameplay_hours |-> 40, motivation |-> 30,
                                 contribution |-> 20, availability |-> 10]
              /\ applications[i].result_score = 100
              /\ applications[i].ai_analysis.recommendation = TopTier
        /\ applications[i].result_score >= 80 =>
              applications[i].ai_analysis.recommendation = TopTier

\* The well-written application is stored with score 100 next to one that
\* scores exactly 80, both in the top tier.
C19_Witness ==
    \E i, j \in AppIds :
        /\ WellWritten(i) /\ applications[i].result_score = 100
        /\ applications[i].ai_analysis.recommendation = TopTier
        /\ applications[j].result_score = 80
        /\ applications[j].ai_analysis.recommendation = TopTier

\* Submissions that have been answered and whose payload is the complete one
\* except for the birthday or the weekly availability.
RangeProbes ==
    {r \in Running : /\ r.op = "submit" /\ r.pc = "done"
                     /\ r.data \in BirthPayloads \cup AvailabilityPayloads}

AgeOf(r) == r.data["date_of_birth"].v

AvailabilityOf(r) == r.data["availability"].v

\* C20: validation rejects a submission for its age or its weekly
\* availability exactly when the value is out of range: ages 13 to 100 and
\* availabilities 0 to 168, bounds included, are accepted; age 12, age 101,
\* availability below 0 and above 168 are rejected.
C20_RangeChecks ==
    \A r \in RangeProbes :
        r.resp = "400_validation" <=>
            \/ AgeOf(r) < 13 \/ AgeOf(r) > 100
            \/ AvailabilityOf(r) < 0 \/ AvailabilityOf(r) > 168

\* Submit-with-discord requests that got as far as the scoring: eligible,
\* the member fetched.
Scored ==
    {r \in Running : /\ r.op = "submit_discord" /\ r.pc = "done"
                     /\ r.resp \notin {"503", "400_not_eligible", "400_user_not_found"}}

\* C21: the scoring returns a definite score for every payload it is called
\* with and never raises: a missing numeric field counts as 0, a missing
\* text as the empty string, and a present but null or non-numeric hours or
\* availability value still yields a score.
C21_EngineTotal ==
    /\ \A r \in Scored : r.resp = "200" /\ r.app \in AppIds
    /\ \A i \in AppIds :
        /\ applications[i].result_score \in 0..100
        /\ NotIn(applications[i].data["gameplay_hours"]) =>
              FactorsOf(i).gameplay_hours = 10
        /\ NotIn(applications[i].data["availability"]) =>
              FactorsOf(i).availability = 2
        /\ NotIn(applications[i].data["reason"]) => FactorsOf(i).motivation = 5
        /\ NotIn(applications[i].data["contribution"]) => FactorsOf(i).contribution = 5

\* The rejected records of the applicant of record i with the latest submission
LastRejectedOf(i) ==
    LatestOf({j \in AppsOf(applications[i].user_id) : applications[j].status = "rejected"})

\* C22: a successful grant-override writes the override fields, with an
\* expiry exactly 7 days after the grant, on the applicant's most recent
\* rejected record and on no other record: it never modifies a pending or
\* approved record, never changes a status, and leaves every other record
\* unchanged.
C22_GrantFrame ==
    [][\A r \in Answered : (r.op = "grant" /\ r.resp = "200") =>
          /\ r.app \in AppIds
          /\ applications[r.app].status = "rejected"
          /\ r.app \in LastRejectedOf(r.app)
          /\ applications' = [applications EXCEPT ![r.app] =
                  [@ EXCEPT !.override_by_ceo = TRUE,
                            !.override_granted_by = r.caller,
                            !.override_granted_at = now,
                            !.override_expires_at = now + OVERRIDE_DAYS * DAY]]]_vars

\* The roles a step grants and the roles it revokes, over all applicants
Granted == UNION {roles'[a] \ roles[a] : a \in Applicants}

Revoked == UNION {roles[a] \ roles'[a] : a \in Applicants}

\* The request that a step of a handler moves, at its new position
Stepped == {r \in Running' : r \notin Running}

\* C23: role effects follow the transition: a submit grants only the pending
\* role; an accept revokes only the pending role and grants only the member
\* role; a reject revokes only the pending role and grants nothing; and an
\* applicant who has left the guild is swallowed, not raised: the accept or
\* reject of a pending application still goes through.
C23_RoleEffects ==
    [][\A r \in Stepped :
          /\ r.op \in {"submit", "submit_discord"} => Granted \subseteq {PENDING_ROLE}
          /\ r.op \in {"accept", "accept_discord"} =>
                Granted \subseteq {MEMBER} /\ Revoked \subseteq {PENDING_ROLE}
          /\ r.op \in {"reject", "reject_discord"} =>
                Granted = {} /\ Revoked \subseteq {PENDING_ROLE}
          /\ (r.op \in ReviewOps /\ r.pc = "done" /\ r.app \in AppIds
                /\ ~inGuild[applications[r.app].user_id])
                => r.resp # "404_user_not_in_server"]_vars

\* C24: notification delivery is at-most-once and never raises: every request
\* attempts the applicant's private message at most one time, a failed
\* attempt is not retried (a stored 'failed' stays), a delivery failure is
\* answered as False and the request still succeeds, and the status stored
\* on the record after submit is 'sent' exactly when that attempt returned
\* True.
C24_AtMostOnce ==
    [][/\ \A r \in Running' : r.sends <= 1
       /\ \A r \in Answered :
            /\ r.sends = 0 => ~r.dm
            /\ r.sends = 1 => r.resp = "200"
            /\ (r.op = "submit_discord" /\ r.sends = 1) =>
                  /\ applications[r.app].dm_delivery_status = "unset"
                  /\ applications'[r.app].dm_delivery_status =
                        IF r.dm THEN "sent" ELSE "failed"
       /\ \A i \in AppIds :
            applications[i].dm_delivery_status # "unset" =>
                applications'[i].dm_delivery_status = applications[i].dm_delivery_status]_vars

\* The submit has been answered 200 although its only attempt failed, and
\* the record says 'failed'.
C24_Witness ==
    \E r \in Running :
        /\ r.op = "submit_discord" /\ r.pc = "done" /\ r.resp = "200"
        /\ r.sends = 1 /\ ~r.dm
        /\ applications[r.app].dm_delivery_status = "failed"

\* C25: no operation blocks indefinitely: every started decision eventually
\* returns a response, even when a call to the platform never answers.
C25_NoBlocking == <>(inflight = EmptyBag)

\* The reviewer, review timestamp and decision reason of a record, under
\* the names of both generations of endpoints
ReviewFields(app) ==
    <<app.reviewed_by, app.reviewed_at, app.review_notes, app.rejection_reason,
      app.handled_by, app.decision_timestamp, app.decision_reason>>

Unreviewed == <<NoOne, Unset, NoReason, NoReason, NoOne, Unset, NoReason>>

\* The reviewers a record names
ReviewersOf(app) == {app.reviewed_by, app.handled_by} \ {NoOne}

\* C26: a pending record has no reviewer, no review timestamp and no
\* decision reason; these fields are set only by the transition that moves
\* the record out of pending, and once set they identify the reviewer whose
\* decision produced the record's current status.
C26_ReviewerFields ==
    [][\A i \in AppIds :
          /\ applications[i].status = "pending" => ReviewFields(applications[i]) = Unreviewed
          /\ applications'[i].status = "pending" => ReviewFields(applications'[i]) = Unreviewed
          /\ ReviewFields(applications'[i]) # ReviewFields(applications[i]) =>
                /\ applications[i].status = "pending"
                /\ applications'[i].status # "pending"
          /\ \A r \in Answered :
                (r.op \in ReviewOps /\ r.resp = "200" /\ r.app = i) =>
                    ReviewersOf(applications'[i]) = {r.caller}]_vars

\* The applicant has an application in the approved terminal state
\* ("approved" in routers/applications.py, "accepted" in application_manager.py)
HasApproved(user) ==
    \E i \in AppsOf(user) : applications[i].status \in {"approved", "accepted"}

\* C27: role and record stay consistent: an applicant to whom the member
\* role has been granted has an application in the approved state; stated
\* for the states in which no request is under way, where it must hold
\* even if it is allowed to lapse between the steps of an accept: after an
\* accept and a reject of the same application have run concurrently, no
\* applicant holds the member role with a rejected record.
C27_RoleMatchesRecord ==
    inflight = EmptyBag =>
        \A a \in Applicants : MEMBER \in roles[a] => HasApproved(a)

\* The applicant has a record that carries an override not yet expired
HoldsOverride(user) ==
    \E i \in AppsOf(user) :
        /\ applications[i].override_by_ceo
        /\ now < applications[i].override_expires_at

\* C28: a granted override is effective: once grant-override has succeeded
\* for an applicant who is in the guild, is not a member and has no pending
\* record, the eligibility check answers eligible at every time before the
\* override's expiry, whatever the applicant's history.
C28_OverrideEffective ==
    \A r \in Running :
        (/\ r.op = "eligibility" /\ r.pc = "done" /\ r.resp = "200"
         /\ r.elig.reason # "NOT_IN_SERVER"
         /\ inGuild[r.caller] /\ MEMBER \notin roles[r.caller]
         /\ ~HasPending(r.caller)
         /\ HoldsOverride(r.caller))
        => r.elig.eligible

\* The applicant has used an override: an earlier record carries one that
\* has not expired, the most recent record was submitted under it, has been
\* decided less than 30 days ago and carries no valid override itself.
UsedOverride(user) ==
    \E i \in AppsOf(user), j \in LatestOf(AppsOf(user)) :
        /\ i # j
        /\ HasValidOverride(applications[i], now)
        /\ applications[j].submitted_at >= applications[i].override_granted_at
        /\ applications[j].status # "pending"
        /\ now - applications[j].submitted_at < COOLDOWN_SECONDS
        /\ ~HasValidOverride(applications[j], now)

\* C29: an override is single-use: once the applicant has made a new
\* submission under it and that record has been decided, a further attempt
\* within 30 days of the new record is refused with COOLDOWN although the
\* old override has not expired, until a new override is granted.
C29_SingleUse ==
    \A r \in Running :
        (/\ r.op = "eligibility" /\ r.pc = "done" /\ r.resp = "200"
         /\ r.elig.reason # "NOT_IN_SERVER"
         /\ inGuild[r.caller] /\ MEMBER \notin roles[r.caller]
         /\ UsedOverride(r.caller))
        => ~r.elig.eligible /\ r.elig.reason = "COOLDOWN"

\* C30: in every reachable state, for every event, the participants list
\* holds no user more than once and its length is at most max_participants,
\* also when register requests for the same event interleave between the
\* read of the event and the push of the participant.
C30_CapacityAndUniqueness ==
    \A e \in EventIds :
        LET p == events[e].participants
        IN  /\ \A j, k \in 1..Len(p) : p[j] = p[k] => j = k
            /\ Len(p) <= events[e].max_participants

====
